---- MODULE Spec2Model ----
(***************************************************************************)
(* Liquidity mining bot (services/bot.js) and its manual-simulation        *)
(* endpoint (server/index.js): the investment lifecycle engine.            *)
(*                                                                         *)
(* Node runs every handler to its next await without interruption, so an   *)
(* action is one such run: the state it reads and writes between two       *)
(* awaits on real I/O (fs.pathExists / fs.readJson / fs.writeJson /        *)
(* setTimeout).  Quantities:                                               *)
(*   - time is in hours (entryTimestamp, exitTimestamp, the clock);        *)
(*   - APY is in percent (0.30 is 30), money in dollars;                   *)
(*   - a JS null is Null (the empty tuple), a set value v is Some(v);      *)
(*   - an undefined field of a request body is a field the record lacks.   *)
(* poolName and protocol are copied from the pool to the investment and    *)
(* read by nothing but the log; they are left out.  Investment ids         *)
(* (Date.now() and a random suffix) are taken to be fresh: a counter.      *)
(* A behaviour has at most MaxFaults failing file-system calls and at most *)
(* MaxCalls calls of stop(), initialize() and the manual endpoint and      *)
(* restarts of the server.  Spec is the bot in one run of the server;      *)
(* StoreSpec is the bot over restarts of the server, with its file.        *)
(***************************************************************************)
EXTENDS Integers, Sequences, FiniteSets, TLC

VARIABLES
    activeInvestments,   \* Map poolId -> investment, in insertion order
    investmentHistory,   \* array of exited investments
    stats,               \* this.stats
    isRunning,           \* this.isRunning
    disk,                \* content of botInvestments.json, or Absent
    loops,               \* the runBotLoop() invocations and where each stands
    manual,              \* the POST /api/bot/investments/simulate in flight
    response,            \* the last response of that endpoint
    now,                 \* the clock, in hours
    nextId,              \* number of investment ids generated so far, plus one
    faults,              \* file-system calls that have failed so far
    calls,               \* calls of stop(), initialize() and the endpoint so far
    initialized,         \* what the last initialize() returned
    cache                \* the pools that the last refresh wrote to highApyPools.json

vars == <<activeInvestments, investmentHistory, stats, isRunning, disk,
          loops, manual, response, now, nextId, faults, calls, initialized, cache>>

----------------------------------------------------------------------------
(* BOT_CONFIG *)

HIGH_APY_THRESHOLD == 30
INVESTMENT_AMOUNT == 1000
HOLDING_PERIOD_HOURS == 48
\* 10 in the source; taken as 2 here so that the ceiling is within reach of
\* the three pools of the model.
MAX_ACTIVE_INVESTMENTS == 2
MIN_LIQUIDITY == 100
MIN_VOLUME_24H == 50
\* the age limit of shouldInvest, in days
MAX_POOL_AGE_DAYS == 7

\* the literals of the manual-simulation endpoint
MANUAL_MIN_APY == 30
MANUAL_MIN_LIQUIDITY == 100
DEFAULT_PRICE == 1
DEFAULT_LIQUIDITY == 1000
DEFAULT_VOLUME == 100

----------------------------------------------------------------------------
(* Bounds of the model *)

\* runBotLoop() invocations that may be alive at once
MaxLoops == 2
\* investments created in one behaviour
MaxPositions == 3
\* exits in one behaviour
MaxHistory == 4
\* file-system calls that fail in one behaviour
MaxFaults == 1
\* calls of stop(), of initialize() and of the manual-simulation endpoint in
\* one behaviour
MaxCalls == 2
\* hours the clock moves at a time, and how many times it moves
ClockStep == 24
MaxClockSteps == 2

PoolIds == {"p1", "p2", "p3"}
ApyValues == {20, 40}
Loops == 1..MaxLoops

Null == <<>>
Some(v) == <<v>>

Absent == [exists |-> FALSE, decodable |-> FALSE]

\* a record of highApyPools.json, in processPoolData's format
Pool(id, apy, liquidity, volume_24h) ==
    [id |-> id, apy |-> apy, price |-> 1, liquidity |-> liquidity, volume_24h |-> volume_24h]

\* The content of highApyPools.json at hour t: the feed the bot is run
\* against.  Over the hours a pool is above or below the APY threshold,
\* short of liquidity or of volume, or missing from the file; the APY of a
\* pool entered in the first hours is higher (p1), lower (p2) or not to be
\* had (p3) when its holding period ends.
PoolFile(t) ==
    IF t < 24 THEN
        << Pool("p1", 40, 1000, 100), Pool("p2", 40, 1000, 100), Pool("p3", 40, 1000, 100) >>
    ELSE IF t < 48 THEN
        << Pool("p1", 40, 1000, 100), Pool("p2", 40, 50, 100), Pool("p3", 40, 1000, 20) >>
    ELSE IF t < 72 THEN
        << Pool("p1", 50, 1000, 100), Pool("p2", 20, 1000, 100) >>
    ELSE
        << Pool("p1", 20, 1000, 100), Pool("p2", 50, 1000, 100), Pool("p3", 40, 1000, 100) >>

\* getPoolAge: Math.random() * 30, in days; one age on each side of the limit
PoolAges == {3, 20}

\* bodies of POST /api/bot/investments/simulate
Requests ==
    { [poolId |-> p, apy |-> a, liquidity |-> q] :
        p \in PoolIds, a \in ApyValues, q \in {0, 50, 1000} }
    \cup { [poolId |-> "p1", apy |-> 40] }
    \cup { [poolId |-> "p1", liquidity |-> 1000] }
    \cup { [apy |-> 40, liquidity |-> 1000] }

Has(req, f) == f \in DOMAIN req

----------------------------------------------------------------------------
(* The Map of active investments *)

MapHas(m, k) == \E i \in 1..Len(m) : m[i].key = k

MapSetAppend(m, k, v) == Append(m, [key |-> k, value |-> v])

MapSet(m, k, v) ==
    IF MapHas(m, k)
    THEN [i \in 1..Len(m) |-> IF m[i].key = k THEN [key |-> k, value |-> v] ELSE m[i]]
    ELSE Append(m, [key |-> k, value |-> v])

MapDelete(m, k) == SelectSeq(m, LAMBDA e : e.key # k)

MapValues(m) == [i \in 1..Len(m) |-> m[i].value]

----------------------------------------------------------------------------
(* Pure parts of the bot *)

EmptyStats ==
    [totalInvestments |-> 0, successfulExits |-> 0, failedExits |-> 0,
     totalProfit |-> 0, totalLoss |-> 0,
     averageHoldingTime |-> [num |-> 0, den |-> 1]]

\* the object literal of simulateInvestment
NewInvestment(id, pool, t) ==
    [id |-> id, poolId |-> pool.id, entryApy |-> pool.apy, entryPrice |-> pool.price,
     entryLiquidity |-> pool.liquidity, entryVolume24h |-> pool.volume_24h,
     investmentAmount |-> INVESTMENT_AMOUNT, entryTimestamp |-> t, status |-> "active",
     exitTimestamp |-> Null, exitApy |-> Null, exitPrice |-> Null, profitLoss |-> Null,
     profitLossPercentage |-> Null, holdingTimeHours |-> Null]

calculateHoldingTime(entryTimestamp, t) == t - entryTimestamp

EligibleAlways(investment, t) == TRUE

\* the test of checkForExits
Eligible(investment, t) ==
    calculateHoldingTime(investment.entryTimestamp, t) >= HOLDING_PERIOD_HOURS

InvestmentsToExitFirst(m, t) ==
    LET all == SelectSeq(MapValues(m), LAMBDA inv : Eligible(inv, t))
    IN  IF all = <<>> THEN <<>> ELSE <<all[1]>>

\* investmentsToExit of checkForExits, in the Map's order
InvestmentsToExit(m, t) ==
    SelectSeq(MapValues(m), LAMBDA inv : Eligible(inv, t))

ExitedInvestmentNoFallback(investment, currentPool, t) ==
    LET exitApy == IF currentPool # Null THEN currentPool[1].apy ELSE 0
        exitPrice == IF currentPool # Null THEN currentPool[1].price ELSE 0
        apyChange == exitApy - investment.entryApy
        apyChangePercentage == (apyChange * 100) \div investment.entryApy
        profitLoss == (apyChangePercentage * investment.investmentAmount) \div 100
    IN  [investment EXCEPT
            !.exitTimestamp = Some(t), !.exitApy = Some(exitApy),
            !.exitPrice = Some(exitPrice),
            !.holdingTimeHours = Some(calculateHoldingTime(investment.entryTimestamp, t)),
            !.profitLoss = Some(profitLoss),
            !.profitLossPercentage = Some(apyChangePercentage),
            !.status = "exited"]

ExitedInvestmentByPrice(investment, currentPool, t) ==
    LET exitApy == IF currentPool # Null THEN currentPool[1].apy ELSE investment.entryApy
        exitPrice == IF currentPool # Null THEN currentPool[1].price ELSE investment.entryPrice
        priceChange == exitPrice - investment.entryPrice
        priceChangePercentage == (priceChange * 100) \div investment.entryPrice
        profitLoss == (priceChangePercentage * investment.investmentAmount) \div 100
    IN  [investment EXCEPT
            !.exitTimestamp = Some(t), !.exitApy = Some(exitApy),
            !.exitPrice = Some(exitPrice),
            !.holdingTimeHours = Some(calculateHoldingTime(investment.entryTimestamp, t)),
            !.profitLoss = Some(profitLoss),
            !.profitLossPercentage = Some(priceChangePercentage),
            !.status = "exited"]

\* updatedInvestment of simulateExit; currentPool is Null when the pool is
\* not in the file or the file cannot be read
ExitedInvestment(investment, currentPool, t) ==
    LET exitApy == IF currentPool # Null THEN currentPool[1].apy ELSE investment.entryApy
        exitPrice == IF currentPool # Null THEN currentPool[1].price ELSE investment.entryPrice
        apyChange == exitApy - investment.entryApy
        apyChangePercentage == (apyChange * 100) \div investment.entryApy
        profitLoss == (apyChangePercentage * investment.investmentAmount) \div 100
    IN  [investment EXCEPT
            !.exitTimestamp = Some(t), !.exitApy = Some(exitApy),
            !.exitPrice = Some(exitPrice),
            !.holdingTimeHours = Some(calculateHoldingTime(investment.entryTimestamp, t)),
            !.profitLoss = Some(profitLoss),
            !.profitLossPercentage = Some(apyChangePercentage),
            !.status = "exited"]

RECURSIVE SumHolding(_)
SumHolding(h) ==
    IF h = <<>> THEN 0 ELSE h[1].holdingTimeHours[1] + SumHolding(Tail(h))

Abs(x) == IF x < 0 THEN -x ELSE x

updateStatsHalving(s, investment, history) ==
    LET pl == investment.profitLoss[1]
        avg == s.averageHoldingTime
    IN
    [s EXCEPT
        !.totalInvestments = @ + 1,
        !.successfulExits = IF pl > 0 THEN @ + 1 ELSE @,
        !.totalProfit = IF pl > 0 THEN @ + pl ELSE @,
        !.failedExits = IF pl > 0 THEN @ ELSE @ + 1,
        !.totalLoss = IF pl > 0 THEN @ ELSE @ + Abs(pl),
        !.averageHoldingTime =
            [num |-> avg.num + investment.holdingTimeHours[1] * avg.den,
             den |-> 2 * avg.den]]

updateStatsStrict(s, investment, history) ==
    LET pl == investment.profitLoss[1] IN
    [s EXCEPT
        !.totalInvestments = @ + 1,
        !.successfulExits = IF pl > 0 THEN @ + 1 ELSE @,
        !.totalProfit = IF pl > 0 THEN @ + pl ELSE @,
        !.failedExits = IF pl < 0 THEN @ + 1 ELSE @,
        !.totalLoss = IF pl < 0 THEN @ + Abs(pl) ELSE @,
        !.averageHoldingTime = [num |-> SumHolding(history), den |-> Len(history)]]

\* updateStats, called with the history the investment was just pushed to
updateStats(s, investment, history) ==
    LET pl == investment.profitLoss[1] IN
    [s EXCEPT
        !.totalInvestments = @ + 1,
        !.successfulExits = IF pl > 0 THEN @ + 1 ELSE @,
        !.totalProfit = IF pl > 0 THEN @ + pl ELSE @,
        !.failedExits = IF pl > 0 THEN @ ELSE @ + 1,
        !.totalLoss = IF pl > 0 THEN @ ELSE @ + Abs(pl),
        !.averageHoldingTime = [num |-> SumHolding(history), den |-> Len(history)]]

shouldInvestAnyLiquidity(m, pool, poolAge) ==
    /\ ~MapHas(m, pool.id)
    /\ ~(pool.apy < HIGH_APY_THRESHOLD)
    /\ ~(pool.volume_24h < MIN_VOLUME_24H)
    /\ ~(poolAge > MAX_POOL_AGE_DAYS)

shouldInvestYoung(m, pool, poolAge) ==
    /\ ~MapHas(m, pool.id)
    /\ ~(pool.apy < HIGH_APY_THRESHOLD)
    /\ ~(pool.liquidity < MIN_LIQUIDITY)
    /\ ~(pool.volume_24h < MIN_VOLUME_24H)
    /\ ~(poolAge > 2)

\* shouldInvest
shouldInvest(m, pool, poolAge) ==
    /\ ~MapHas(m, pool.id)
    /\ ~(pool.apy < HIGH_APY_THRESHOLD)
    /\ ~(pool.liquidity < MIN_LIQUIDITY)
    /\ ~(pool.volume_24h < MIN_VOLUME_24H)
    /\ ~(poolAge > MAX_POOL_AGE_DAYS)

\* getHighApyPools, the file read
getHighApyPools(t) == SelectSeq(PoolFile(t), LAMBDA pool : pool.apy >= HIGH_APY_THRESHOLD)

getCurrentPoolDataCached(poolId, t, readable) ==
    LET found == SelectSeq(PoolFile(t), LAMBDA pool : pool.id = poolId) IN
    IF found # <<>> THEN Some(found[1]) ELSE Null

\* getCurrentPoolData: pools.find, or null when the file cannot be read
getCurrentPoolData(poolId, t, readable) ==
    LET found == SelectSeq(PoolFile(t), LAMBDA pool : pool.id = poolId) IN
    IF readable /\ found # <<>> THEN Some(found[1]) ELSE Null

----------------------------------------------------------------------------
(* The file botInvestments.json *)

\* A poolId that is a JSON number, 7, as a request body may carry it; every
\* other poolId of the model is a string.
NumberId == "#7"

\* the key of an object's property is a string: the number 7 is the key "7"
ToPropertyKey(k) == IF k = NumberId THEN "7" ELSE k

\* a key that is a canonical array index (the model has one)
IsArrayIndex(k) == k = "7"

\* the properties of an object created from entries in their order, a later
\* entry under a key already there replacing its value
RECURSIVE CreateProperties(_, _)
CreateProperties(obj, entries) ==
    IF entries = <<>> THEN obj
    ELSE CreateProperties(
            MapSet(obj, ToPropertyKey(Head(entries).key), Head(entries).value),
            Tail(entries))

\* the order in which an object lists its own properties: the array indices,
\* then the other keys in the order of their creation
OwnProperties(obj) ==
    SelectSeq(obj, LAMBDA e : IsArrayIndex(e.key))
        \o SelectSeq(obj, LAMBDA e : ~IsArrayIndex(e.key))

\* Object.fromEntries(this.activeInvestments), as JSON writes it and reads it
ObjectFromEntries(m) == OwnProperties(CreateProperties(<<>>, m))

\* the Map that loadInvestments fills from Object.entries(data.activeInvestments)
RECURSIVE MapFromEntries(_, _)
MapFromEntries(m, entries) ==
    IF entries = <<>> THEN m
    ELSE MapFromEntries(MapSet(m, Head(entries).key, Head(entries).value), Tail(entries))

SaveDataNoStats(m, h, s) ==
    [exists |-> TRUE, decodable |-> TRUE, activeInvestments |-> ObjectFromEntries(m),
     investmentHistory |-> h, stats |-> EmptyStats]

\* the data object of saveInvestments, as the file holds it (lastUpdated is
\* read by nothing)
SaveData(m, h, s) ==
    [exists |-> TRUE, decodable |-> TRUE, activeInvestments |-> ObjectFromEntries(m),
     investmentHistory |-> h, stats |-> s]

\* a file that is there and is not JSON
Garbled == [exists |-> TRUE, decodable |-> FALSE]

loadInvestmentsKeepStats(data, m, h, s) ==
    IF data.exists /\ data.decodable
    THEN <<MapFromEntries(<<>>, data.activeInvestments), data.investmentHistory, s>>
    ELSE <<m, h, s>>

\* loadInvestments: the Map, the history and the stats it leaves, from the
\* file and those there were; readJson throwing is caught and logged
loadInvestments(data, m, h, s) ==
    IF data.exists /\ data.decodable
    THEN <<MapFromEntries(<<>>, data.activeInvestments), data.investmentHistory, data.stats>>
    ELSE <<m, h, s>>

----------------------------------------------------------------------------
(* The manual-simulation endpoint, up to the call of simulateInvestment *)

\* the pool object built from the request body
ManualPool(req) ==
    [id |-> req.poolId, apy |-> req.apy,
     price |-> DEFAULT_PRICE,
     liquidity |-> IF Has(req, "liquidity") /\ req.liquidity # 0
                   THEN req.liquidity ELSE DEFAULT_LIQUIDITY,
     volume_24h |-> DEFAULT_VOLUME]

ManualVerdictNoApy(req) ==
    IF ~Has(req, "poolId") \/ ~Has(req, "apy") THEN "missing"
    ELSE IF ManualPool(req).liquidity < MANUAL_MIN_LIQUIDITY THEN "liquidity"
    ELSE "accept"

\* the checks of the endpoint, in order
ManualVerdict(req) ==
    IF ~Has(req, "poolId") \/ ~Has(req, "apy") THEN "missing"
    ELSE IF ManualPool(req).apy < MANUAL_MIN_APY THEN "apy"
    ELSE IF ManualPool(req).liquidity < MANUAL_MIN_LIQUIDITY THEN "liquidity"
    ELSE "accept"

--------------------------------------------------------------------------------------------------------------------------------------------------
(* State *)

IdleLoop == [pc |-> "idle", toExit |-> <<>>, idx |-> 0, data |-> Null]
SleepingLoop == [pc |-> "sleep", toExit |-> <<>>, idx |-> 0, data |-> Null]
ExitLoop(toExit) == [pc |-> "exit", toExit |-> toExit, idx |-> 0, data |-> Null]
EnterLoop(i) == [pc |-> "enter", toExit |-> <<>>, idx |-> i, data |-> Null]
IdleManual == [pc |-> "idle", data |-> Null, investment |-> Null]
NoResponse == [status |-> 0, error |-> "none"]
Reply(status, error) == [status |-> status, error |-> error]

\* the engine's own state, and the rest
engine == <<activeInvestments, investmentHistory, stats>>

Init ==
    /\ activeInvestments = <<>>
    /\ investmentHistory = <<>>
    /\ stats = EmptyStats
    /\ isRunning = FALSE
    /\ disk = Absent
    /\ loops = [l \in Loops |-> IdleLoop]
    /\ manual = IdleManual
    /\ response = NoResponse
    /\ now = 0
    /\ nextId = 1
    /\ faults = 0
    /\ calls = 0
    /\ initialized = Null
    /\ cache = <<>>

\* the outcomes of a file-system call: it succeeds, or it throws
FsOutcomes == IF faults < MaxFaults THEN {TRUE, FALSE} ELSE {TRUE}
FsCall(ok) == faults' = IF ok THEN faults ELSE faults + 1

\* an operator's call
Call == calls < MaxCalls /\ calls' = calls + 1

----------------------------------------------------------------------------
(* runBotLoop *)

AfterExitsSkip(size) == SleepingLoop

\* the test of runBotLoop before checkForNewOpportunities
Gate(size) == size < MAX_ACTIVE_INVESTMENTS

\* where the loop stands once checkForExits has returned: awaiting the pool
\* file in getHighApyPools, or asleep
AfterExits(size) == IF Gate(size) THEN EnterLoop(1) ELSE SleepingLoop

\* where the loop stands once pool i of the list has been dealt with
AfterPool(i, pools) == IF i < Len(pools) THEN EnterLoop(i + 1) ELSE SleepingLoop

NextExitAbort(rest, size) == AfterExits(size)

\* where the loop stands once a simulateExit has returned, the investment
\* or null: at the next investment of investmentsToExit, or past the exits
NextExit(rest, size) == IF rest # <<>> THEN ExitLoop(rest) ELSE AfterExits(size)

\* one pass of the while loop up to its first await: the synchronous part of
\* checkForExits, then either the first simulateExit or the gate
TickBegin(l) ==
    LET toExit == InvestmentsToExit(activeInvestments, now) IN
    loops' = [loops EXCEPT ![l] =
                IF toExit # <<>> THEN ExitLoop(toExit)
                ELSE AfterExits(Len(activeInvestments))]

LaunchAsleep ==
    /\ isRunning' = TRUE
    /\ \E l \in Loops :
        /\ loops[l].pc = "idle"
        /\ \A k \in Loops : k < l => loops[k].pc # "idle"
        /\ loops' = [loops EXCEPT ![l] = SleepingLoop]
    /\ UNCHANGED <<engine, disk, manual, response, now, nextId, faults, calls, initialized, cache>>

\* runBotLoop() is invoked and runs to its first await
Launch ==
    /\ isRunning' = TRUE
    /\ \E l \in Loops :
        /\ loops[l].pc = "idle"
        /\ \A k \in Loops : k < l => loops[k].pc # "idle"
        /\ TickBegin(l)
    /\ UNCHANGED <<engine, disk, manual, response, now, nextId, faults, calls, initialized, cache>>

StartAlways == Launch

\* start(): a call while running warns and returns
Start == IF isRunning THEN UNCHANGED vars ELSE Launch

\* stop()
Stop ==
    /\ isRunning
    /\ Call
    /\ isRunning' = FALSE
    /\ UNCHANGED <<engine, disk, loops, manual, response, now, nextId, faults, initialized, cache>>

\* the sleep of runBotLoop ends: the while condition, then the next pass
Wake(l) ==
    /\ loops[l].pc = "sleep"
    /\ IF isRunning THEN TickBegin(l)
       ELSE loops' = [loops EXCEPT ![l] = IdleLoop]
    /\ UNCHANGED <<engine, isRunning, disk, manual, response, now, nextId, faults, calls, initialized, cache>>

\* simulateExit of the first investment of the list, from the answer of
\* getCurrentPoolData to the call of fs.writeJson.  logInvestment appends to
\* the log file synchronously and may throw: the catch returns null after
\* the Map, the history and the stats have changed, and nothing is saved.
ExitApply(l) ==
    /\ loops[l].pc = "exit"
    /\ Len(investmentHistory) < MaxHistory
    /\ \E readable \in FsOutcomes, logOk \in FsOutcomes :
        LET investment == Head(loops[l].toExit)
            rest == Tail(loops[l].toExit)
            currentPool == getCurrentPoolData(investment.poolId, now, readable)
            updatedInvestment == ExitedInvestment(investment, currentPool, now)
        IN
        /\ readable \/ logOk
        /\ FsCall(readable /\ logOk)
        /\ activeInvestments' = MapDelete(activeInvestments, investment.poolId)
        /\ investmentHistory' = Append(investmentHistory, updatedInvestment)
        /\ stats' = updateStats(stats, updatedInvestment, investmentHistory')
        /\ loops' = [loops EXCEPT ![l] =
             IF logOk
             THEN [pc |-> "exitSave", toExit |-> rest, idx |-> 0,
                   data |-> Some(SaveData(activeInvestments', investmentHistory', stats'))]
             ELSE NextExit(rest, Len(activeInvestments'))]
    /\ UNCHANGED <<isRunning, disk, manual, response, now, nextId, calls, initialized, cache>>

ExitSaveDoneUnlessStopped(l) ==
    /\ loops[l].pc = "exitSave"
    /\ IF isRunning
       THEN /\ \E ok \in FsOutcomes :
                /\ FsCall(ok)
                /\ disk' = IF ok THEN loops[l].data[1] ELSE disk
            /\ loops' = [loops EXCEPT ![l] =
                            NextExit(loops[l].toExit, Len(activeInvestments))]
       ELSE /\ loops' = [loops EXCEPT ![l] = IdleLoop]
            /\ UNCHANGED <<disk, faults>>
    /\ UNCHANGED <<engine, isRunning, manual, response, now, nextId, calls, initialized, cache>>

\* fs.writeJson of saveInvestments settles; a failure is logged and swallowed
ExitSaveDone(l) ==
    /\ loops[l].pc = "exitSave"
    /\ \E ok \in FsOutcomes :
        /\ FsCall(ok)
        /\ disk' = IF ok THEN loops[l].data[1] ELSE disk
    /\ loops' = [loops EXCEPT ![l] = NextExit(loops[l].toExit, Len(activeInvestments))]
    /\ UNCHANGED <<engine, isRunning, manual, response, now, nextId, calls, initialized, cache>>

SourceUnreadableFatal(l) ==
    /\ loops[l].pc = "enter"
    /\ loops[l].idx = 1
    /\ FALSE \in FsOutcomes
    /\ FsCall(FALSE)
    /\ loops' = [loops EXCEPT ![l] = IdleLoop]
    /\ isRunning' = FALSE
    /\ UNCHANGED <<engine, disk, manual, response, now, nextId, calls, initialized, cache>>

\* getHighApyPools cannot read the file and returns []: the pass ends
SourceUnreadable(l) ==
    /\ loops[l].pc = "enter"
    /\ loops[l].idx = 1
    /\ FALSE \in FsOutcomes
    /\ FsCall(FALSE)
    /\ loops' = [loops EXCEPT ![l] = SleepingLoop]
    /\ UNCHANGED <<engine, isRunning, disk, manual, response, now, nextId, calls, initialized, cache>>

\* checkForNewOpportunities from pool idx of the list on.  The pools that
\* shouldInvest refuses are passed over without an await; for the first one
\* it accepts, simulateInvestment runs to its fs.writeJson.  With none left
\* to accept the pass ends.
InvestWith(l, ages, logOk) ==
    /\ loops[l].pc = "enter"
    /\ LET pools == getHighApyPools(now)
           accepted == { j \in loops[l].idx..Len(pools) :
                            shouldInvest(activeInvestments, pools[j], ages[j]) }
       IN
        IF accepted = {}
        THEN /\ logOk
             /\ loops' = [loops EXCEPT ![l] = SleepingLoop]
             /\ UNCHANGED <<activeInvestments, nextId, faults>>
        ELSE LET j == CHOOSE k \in accepted : \A m \in accepted : k <= m
                 pool == pools[j]
             IN
             /\ nextId <= MaxPositions
             /\ activeInvestments' =
                  MapSet(activeInvestments, pool.id, NewInvestment(nextId, pool, now))
             /\ nextId' = nextId + 1
             /\ FsCall(logOk)
             /\ loops' = [loops EXCEPT ![l] =
                  IF logOk
                  THEN [pc |-> "enterSave", toExit |-> <<>>, idx |-> j,
                        data |-> Some(SaveData(activeInvestments', investmentHistory, stats))]
                  ELSE AfterPool(j, pools)]
    /\ UNCHANGED <<investmentHistory, stats, isRunning, disk, manual, response, now, calls, initialized, cache>>

\* the ages getPoolAge draws for the pools of the list, and whether the log
\* file can be appended to
Invest(l) ==
    \E ages \in [1..Len(getHighApyPools(now)) -> PoolAges], logOk \in FsOutcomes :
        InvestWith(l, ages, logOk)

EnterSaveDone(l) ==
    /\ loops[l].pc = "enterSave"
    /\ \E ok \in FsOutcomes :
        /\ FsCall(ok)
        /\ disk' = IF ok THEN loops[l].data[1] ELSE disk
    /\ loops' = [loops EXCEPT ![l] = AfterPool(loops[l].idx, getHighApyPools(now))]
    /\ UNCHANGED <<engine, isRunning, manual, response, now, nextId, calls, initialized, cache>>

----------------------------------------------------------------------------
(* POST /api/bot/investments/simulate *)

\* the handler up to its first await: the checks, then simulateInvestment up
\* to its fs.writeJson
ManualEntry(req) ==
    /\ manual.pc = "idle"
    /\ Call
    /\ LET verdict == ManualVerdict(req) IN
       IF verdict # "accept"
       THEN /\ response' = Reply(400, verdict)
            /\ UNCHANGED <<activeInvestments, manual, nextId, faults>>
       ELSE \E logOk \in FsOutcomes :
            LET pool == ManualPool(req)
                investment == NewInvestment(nextId, pool, now)
            IN
            /\ nextId <= MaxPositions
            /\ activeInvestments' = MapSet(activeInvestments, pool.id, investment)
            /\ nextId' = nextId + 1
            /\ FsCall(logOk)
            /\ IF logOk
               THEN /\ manual' = [pc |-> "save",
                                  data |-> Some(SaveData(activeInvestments',
                                                         investmentHistory, stats)),
                                  investment |-> Some(investment)]
                    /\ response' = NoResponse
               ELSE /\ manual' = manual
                    /\ response' = Reply(500, "failed")
    /\ UNCHANGED <<investmentHistory, stats, isRunning, disk, loops, now, initialized, cache>>

\* the write of saveInvestments settles and the handler answers
ManualSaveDone ==
    /\ manual.pc = "save"
    /\ \E ok \in FsOutcomes :
        /\ FsCall(ok)
        /\ disk' = IF ok THEN manual.data[1] ELSE disk
    /\ manual' = IdleManual
    /\ response' = Reply(200, "none")
    /\ UNCHANGED <<engine, isRunning, loops, now, nextId, calls, initialized, cache>>

----------------------------------------------------------------------------
(* initialize() and the clock *)

\* initialize(): ensureDir, then loadInvestments; false is returned when
\* ensureDir throws.  The read of the file and the replacement of the Map,
\* the history and the stats are taken as one step.
Initialize ==
    /\ Call
    /\ \E dirOk \in FsOutcomes :
        /\ FsCall(dirOk)
        /\ initialized' = Some(dirOk)
        /\ LET loaded == IF dirOk
                         THEN loadInvestments(disk, activeInvestments,
                                              investmentHistory, stats)
                         ELSE engine
           IN  /\ activeInvestments' = loaded[1]
               /\ investmentHistory' = loaded[2]
               /\ stats' = loaded[3]
    /\ UNCHANGED <<isRunning, disk, loops, manual, response, now, nextId, cache>>

\* The clock moves in steps of hours, a file-system call takes milliseconds:
\* the clock moves while no call is pending.
Quiescent ==
    /\ \A l \in Loops : loops[l].pc \in {"idle", "sleep"}
    /\ manual.pc = "idle"

AdvanceClock ==
    /\ Quiescent
    /\ now + ClockStep <= MaxClockSteps * ClockStep
    /\ now' = now + ClockStep
    /\ UNCHANGED <<engine, isRunning, disk, loops, manual, response, nextId, faults, calls, initialized, cache>>

Next ==
    \/ Start
    \/ Stop
    \/ \E l \in Loops : Wake(l)
    \/ \E l \in Loops : ExitApply(l)
    \/ \E l \in Loops : ExitSaveDone(l)
    \/ \E l \in Loops : SourceUnreadable(l)
    \/ \E l \in Loops : Invest(l)
    \/ \E l \in Loops : EnterSaveDone(l)
    \/ \E req \in Requests : ManualEntry(req)
    \/ ManualSaveDone
    \/ Initialize
    \/ AdvanceClock

Spec == Init /\ [][Next]_vars

----------------------------------------------------------------------------
(* The bot across restarts of the server *)

\* the data of the writes of botInvestments.json that are pending
PendingWrites ==
    { loops[l].data[1] : l \in { k \in Loops : loops[k].pc \in {"exitSave", "enterSave"} } }
        \cup (IF manual.pc = "save" THEN {manual.data[1]} ELSE {})

\* what the file may hold once the process has ended: what it held, or with
\* a write pending the data of that write or a part of it
FileAfterExit ==
    {disk} \cup PendingWrites \cup (IF PendingWrites # {} THEN {Garbled} ELSE {})

\* The server process ends and a new one begins: the module is loaded again
\* and the bot is constructed.  The listen callback then calls initialize().
Restart ==
    /\ Call
    /\ disk' \in FileAfterExit
    /\ activeInvestments' = <<>>
    /\ investmentHistory' = <<>>
    /\ stats' = EmptyStats
    /\ isRunning' = FALSE
    /\ loops' = [l \in Loops |-> IdleLoop]
    /\ manual' = IdleManual
    /\ response' = NoResponse
    /\ initialized' = Null
    /\ UNCHANGED <<now, nextId, faults, cache>>

\* bodies of POST /api/bot/investments/simulate, one with a number for poolId
StoreRequests ==
    { [poolId |-> NumberId, apy |-> 40, liquidity |-> 1000],
      [poolId |-> "p2", apy |-> 40, liquidity |-> 1000],
      [poolId |-> "p2", apy |-> 20, liquidity |-> 1000] }

\* the server left running (no stop()) over restarts of its process
StoreNext ==
    \/ Start
    \/ \E l \in Loops : Wake(l)
    \/ \E l \in Loops : ExitApply(l)
    \/ \E l \in Loops : ExitSaveDone(l)
    \/ \E l \in Loops : Invest(l)
    \/ \E l \in Loops : EnterSaveDone(l)
    \/ \E req \in StoreRequests : ManualEntry(req)
    \/ ManualSaveDone
    \/ Initialize
    \/ Restart
    \/ AdvanceClock

StoreSpec == Init /\ [][StoreNext]_vars

----------------------------------------------------------------------------
(* The bot left running: the tick loop, the endpoint and the clock *)

LiveRequests ==
    { [poolId |-> p, apy |-> 40, liquidity |-> 1000] : p \in {"p1", "p2"} }

LiveNext ==
    \/ Start
    \/ \E l \in Loops : Wake(l)
    \/ \E l \in Loops : ExitApply(l)
    \/ \E l \in Loops : ExitSaveDone(l)
    \/ \E l \in Loops : SourceUnreadable(l)
    \/ \E l \in Loops : Invest(l)
    \/ \E l \in Loops : EnterSaveDone(l)
    \/ \E req \in LiveRequests : ManualEntry(req)
    \/ ManualSaveDone
    \/ AdvanceClock

\* A loop that can take its next step takes it: the sleep of runBotLoop ends
\* and a file-system call settles.  The clock moves on however often the
\* loops are in the middle of a tick.  Nothing obliges an operator to start
\* the bot or to call the endpoint.
LiveFairness ==
    /\ \A l \in Loops :
        /\ WF_vars(Wake(l))
        /\ WF_vars(ExitApply(l))
        /\ WF_vars(ExitSaveDone(l))
        /\ WF_vars(Invest(l))
        /\ WF_vars(EnterSaveDone(l))
    /\ WF_vars(ManualSaveDone)
    /\ SF_vars(AdvanceClock)

LiveSpec == Init /\ [][LiveNext]_vars /\ LiveFairness

----------------------------------------------------------------------------
(* simulateExit and updateStats on their own *)

\* the hours of entry, the hours held and the APYs at exit of the exits
SettleEntries == {0, 12}
SettleHolds == {48, 60}
SettleApys == {20, 40, 50}

\* simulateExit from the answer of getCurrentPoolData to updateStats, for an
\* investment of 40% entered at hour entry and exited held hours later
Settle ==
    /\ Len(investmentHistory) < MaxHistory
    /\ \E entry \in SettleEntries, held \in SettleHolds, apy \in SettleApys :
        LET investment ==
                NewInvestment(Len(investmentHistory) + 1, Pool("p1", 40, 1000, 100), entry)
            updatedInvestment ==
                ExitedInvestment(investment, Some(Pool("p1", apy, 1000, 100)), entry + held)
        IN  /\ investmentHistory' = Append(investmentHistory, updatedInvestment)
            /\ stats' = updateStats(stats, updatedInvestment, investmentHistory')
    /\ UNCHANGED <<activeInvestments, isRunning, disk, loops, manual, response, now,
                   nextId, faults, calls, initialized, cache>>

StatsNext == Settle

StatsSpec == Init /\ [][StatsNext]_vars

----------------------------------------------------------------------------
(* The refresh of highApyPools.json (services/orca.js) *)

\* HIGH_APY_THRESHOLD of the Orca service, in percent
ORCA_HIGH_APY_THRESHOLD == 5

\* Pools as the Orca API gives them: an APY that is 0 is one that is 0 or is
\* not given, an account that is "" is one that is not given.
RawPools ==
    { [account |-> a, mint_account |-> "", apy_30d |-> x, apy_7d |-> y, apy_24h |-> 0,
       liquidity |-> 1000, price |-> 1, volume_24h |-> 100] :
        a \in {"p1", "p2", ""}, x \in {0, 3, 20, 40}, y \in {0, 40} }

\* the responses of the API: at most two pools
RawResponses ==
    {<<>>} \cup { <<a>> : a \in RawPools } \cup { <<a, b>> : a \in RawPools, b \in RawPools }

\* pool.apy_30d || pool.apy_7d || pool.apy_24h || 0
RawApy(pool) ==
    IF pool.apy_30d # 0 THEN pool.apy_30d
    ELSE IF pool.apy_7d # 0 THEN pool.apy_7d
    ELSE pool.apy_24h

filterHighApyPools(pools) ==
    SelectSeq(pools, LAMBDA pool : RawApy(pool) > ORCA_HIGH_APY_THRESHOLD)

\* the record processPoolData makes of a pool
ProcessedPool(pool) ==
    [id |-> IF pool.account # "" THEN pool.account ELSE pool.mint_account,
     apy |-> RawApy(pool), apy_24h |-> pool.apy_24h, apy_7d |-> pool.apy_7d,
     apy_30d |-> pool.apy_30d, liquidity |-> pool.liquidity, price |-> pool.price,
     volume_24h |-> pool.volume_24h]

processPoolData(pools) ==
    SelectSeq([i \in 1..Len(pools) |-> ProcessedPool(pools[i])], LAMBDA pool : pool.id # "")

\* fetchAndCacheOrcaPools: the API answers or the request fails; the pools
\* are filtered, processed and written to the file, and the write may fail
Refresh ==
    /\ \E fetched \in BOOLEAN, raw \in RawResponses, ok \in FsOutcomes :
        /\ FsCall(fetched => ok)
        /\ cache' = IF fetched /\ ok THEN processPoolData(filterHighApyPools(raw))
                    ELSE cache
    /\ UNCHANGED <<engine, isRunning, disk, loops, manual, response, now, nextId,
                   calls, initialized>>

CacheNext == Refresh

CacheSpec == Init /\ [][CacheNext]_vars

----------------------------------------------------------------------------
(* Properties *)

HistoryIds == { investmentHistory[i].id : i \in 1..Len(investmentHistory) }
ActiveIds == { activeInvestments[i].value.id : i \in 1..Len(activeInvestments) }
MidTick(l) == loops[l].pc \notin {"idle", "sleep"}
Saving ==
    Cardinality({ l \in Loops : loops[l].pc \in {"exitSave", "enterSave"} })
        + (IF manual.pc = "save" THEN 1 ELSE 0)

C2_ExitedOnce ==
    /\ \A i, j \in 1..Len(investmentHistory) :
        i # j => investmentHistory[i].id # investmentHistory[j].id
    /\ stats.totalInvestments <= Cardinality(HistoryIds)

\* C3: once every loop is through its pass, the active investments number
\* at most MAX_ACTIVE_INVESTMENTS.
C3_Capacity ==
    (\A l \in Loops : ~MidTick(l)) => Len(activeInvestments) <= MAX_ACTIVE_INVESTMENTS

\* C4: every investment of the history was held for at least
\* HOLDING_PERIOD_HOURS, by its timestamps and by its recorded holding time,
\* and every investment a pass has selected for exit has been held that long.
C4_SettlementTiming ==
    /\ \A i \in 1..Len(investmentHistory) :
        LET h == investmentHistory[i] IN
        /\ h.exitTimestamp[1] - h.entryTimestamp >= HOLDING_PERIOD_HOURS
        /\ h.holdingTimeHours[1] >= HOLDING_PERIOD_HOURS
    /\ \A l \in Loops : \A i \in 1..Len(loops[l].toExit) :
        now - loops[l].toExit[i].entryTimestamp >= HOLDING_PERIOD_HOURS

\* C4, its case: an investment has exited while another, entered later and
\* not yet held long enough, is still active.
C4_Witness ==
    /\ investmentHistory # <<>>
    /\ \E i \in 1..Len(activeInvestments) :
        /\ now - activeInvestments[i].value.entryTimestamp < HOLDING_PERIOD_HOURS
        /\ activeInvestments[i].value.entryTimestamp < now

ExitFields(inv) ==
    { inv.exitTimestamp, inv.exitApy, inv.exitPrice, inv.profitLoss,
      inv.profitLossPercentage, inv.holdingTimeHours }

\* C6: an investment of the history is never active again; the exit fields
\* of an active investment are all null and those of an investment of the
\* history are all set.
C6_Lifecycle ==
    /\ [](/\ \A i \in 1..Len(activeInvestments) :
              ExitFields(activeInvestments[i].value) = {Null}
          /\ \A i \in 1..Len(investmentHistory) :
              Null \notin ExitFields(investmentHistory[i]))
    /\ [][HistoryIds \cap ActiveIds' = {}]_vars

\* C7: a manual request with an APY below the threshold is answered with an
\* error and changes neither the active investments, the history, the stats
\* nor the file.
C7_LowApyRejected ==
    [][\A req \in Requests :
        (Has(req, "apy") /\ req.apy < HIGH_APY_THRESHOLD /\ ManualEntry(req))
            => /\ UNCHANGED <<activeInvestments, investmentHistory, stats, disk>>
               /\ response'.status = 400]_vars

\* C7, its case: a request has been refused for its APY while investments
\* are active.
C7_Witness ==
    /\ response = Reply(400, "apy")
    /\ activeInvestments # <<>>

\* C8: a manual request with a liquidity below MIN_LIQUIDITY, zero included,
\* is answered with an error and adds no investment.
C8_LowLiquidityRejected ==
    [][\A req \in Requests :
        (Has(req, "liquidity") /\ req.liquidity < MIN_LIQUIDITY /\ ManualEntry(req))
            => /\ activeInvestments' = activeInvestments
               /\ response'.status = 400]_vars

\* C9: a manual request for a pool with an active investment adds no
\* investment and leaves the active one as it is.
C9_ExistingKept ==
    [][\A req \in Requests :
        (Has(req, "poolId") /\ MapHas(activeInvestments, req.poolId) /\ ManualEntry(req))
            => activeInvestments' = activeInvestments]_vars

\* C10: at most one exit, entry or manual entry is between its change of
\* the state and the end of its write.
C10_MutualExclusion == Saving <= 1

\* C11: at most one runBotLoop() is within a pass at any time: the loop
\* that stop() has halted runs no pass beside the loop of a later start().
C11_SingleLoop == Cardinality({ l \in Loops : MidTick(l) }) <= 1

\* C12: start() while the bot is running launches no loop and leaves the
\* running flag, the loops, the active investments, the history and the
\* stats as they are.
C12_StartWhileRunning ==
    [][(isRunning /\ Start) => UNCHANGED <<isRunning, loops, engine>>]_vars

\* C12, its case: the bot is running, a loop is within a pass with
\* investments active, and there is room for a second loop.
C12_Witness ==
    /\ isRunning
    /\ \E l \in Loops : MidTick(l)
    /\ \E l \in Loops : loops[l].pc = "idle"
    /\ activeInvestments # <<>>

WritePending(l) == loops[l].pc \in {"exitSave", "enterSave"}

\* the investments, the history and the stats that a data object holds are
\* those of the bot
Complete(data, m, h, s) ==
    /\ { data.activeInvestments[i].value : i \in 1..Len(data.activeInvestments) }
         = { m[i].value : i \in 1..Len(m) }
    /\ Len(data.activeInvestments) = Len(m)
    /\ data.investmentHistory = h
    /\ data.stats = s

\* C13: when the write of botInvestments.json fails for a manual entry, the
\* endpoint does not answer with success.
C13_WriteFailureSurfaced ==
    [][(manual.pc = "save" /\ manual'.pc = "idle" /\ faults' > faults)
            => response'.status # 200]_vars

C15_GarbledReported ==
    [][(disk = Garbled /\ Initialize) => initialized' = Some(FALSE)]_vars

\* C16: saving the state of the bot and loading it into a new bot gives
\* the same active investments under the same keys, the same history in
\* the same order and the same stats.
C16_RoundTrip ==
    LET loaded == loadInvestments(SaveData(activeInvestments, investmentHistory, stats),
                                  <<>>, <<>>, EmptyStats)
    IN  /\ { loaded[1][i] : i \in 1..Len(loaded[1]) }
             = { activeInvestments[i] : i \in 1..Len(activeInvestments) }
        /\ Len(loaded[1]) = Len(activeInvestments)
        /\ loaded[2] = investmentHistory
        /\ loaded[3] = stats

Fresh ==
    /\ activeInvestments = <<>>
    /\ investmentHistory = <<>>
    /\ stats = EmptyStats
    /\ initialized = Null

\* C17: initialize() of a newly constructed bot that returns true leaves
\* the active investments, the history and the stats that the file holds,
\* and with no file no active investment, an empty history and the stats
\* at zero.
C17_RestoreOnRestart ==
    [][(Fresh /\ Initialize /\ initialized' = Some(TRUE)) =>
        /\ (disk.exists /\ disk.decodable) =>
                /\ activeInvestments' = disk.activeInvestments
                /\ investmentHistory' = disk.investmentHistory
                /\ stats' = disk.stats
        /\ ~disk.exists =>
                /\ activeInvestments' = <<>>
                /\ investmentHistory' = <<>>
                /\ stats' = EmptyStats]_vars

\* C17, its case: after a restart (the bot is not running and no loop is
\* alive) initialize() has loaded active investments and a history.
C17_Witness ==
    /\ ~isRunning
    /\ initialized = Some(TRUE)
    /\ investmentHistory # <<>>
    /\ activeInvestments # <<>>
    /\ disk.exists /\ disk.decodable
    /\ activeInvestments = disk.activeInvestments
    /\ investmentHistory = disk.investmentHistory
    /\ stats = disk.stats

\* C18: for every investment of the history, profitLossPercentage is
\* ((exitApy - entryApy) / entryApy) * 100 and profitLoss is
\* (profitLossPercentage / 100) * investmentAmount, so that profitLoss > 0
\* exactly when exitApy > entryApy.  (The feed's APYs divide exactly.)
C18_ProfitLoss ==
    \A i \in 1..Len(investmentHistory) :
        LET h == investmentHistory[i] IN
        /\ h.profitLossPercentage[1] * h.entryApy = (h.exitApy[1] - h.entryApy) * 100
        /\ h.profitLoss[1] * 100 = h.profitLossPercentage[1] * h.investmentAmount
        /\ (h.profitLoss[1] > 0) <=> (h.exitApy[1] > h.entryApy)

\* C18, its case: an investment entered at 40% has exited at 50% with 25%
\* and 250 dollars, and another has exited below its entry APY.
C18_Witness ==
    /\ \E i \in 1..Len(investmentHistory) :
        LET h == investmentHistory[i] IN
        /\ h.entryApy = 40 /\ h.exitApy = Some(50)
        /\ h.profitLossPercentage = Some(25) /\ h.profitLoss = Some(250)
    /\ \E i \in 1..Len(investmentHistory) :
        investmentHistory[i].exitApy[1] < investmentHistory[i].entryApy

C20_SourceUnreadable ==
    [][\A l \in Loops :
        /\ SourceUnreadable(l) =>
                /\ activeInvestments' = activeInvestments
                /\ loops'[l] = SleepingLoop
        /\ (loops[l].pc = "exit" /\ loops'[l].pc = "exitSave" /\ faults' > faults) =>
                LET investment == Head(loops[l].toExit)
                    exited == investmentHistory'[Len(investmentHistory')]
                IN  /\ ~MapHas(activeInvestments', investment.poolId)
                    /\ Len(investmentHistory') = Len(investmentHistory) + 1
                    /\ exited.id = investment.id
                    /\ exited.status = "exited"
                    /\ exited.exitApy = Some(investment.entryApy)
                    /\ exited.exitPrice = Some(investment.entryPrice)]_vars

\* C20, its case: an investment has exited at its entry APY in an hour in
\* which the file lists its pool at another APY (the read failed), and a
\* pass has since invested from the file.
C20_Witness ==
    \E i \in 1..Len(investmentHistory) :
        LET h == investmentHistory[i]
            listed == getCurrentPoolData(h.poolId, h.exitTimestamp[1], TRUE)
        IN  /\ listed # Null
            /\ listed[1].apy # h.exitApy[1]
            /\ h.exitApy[1] = h.entryApy
            /\ \E k \in 1..Len(activeInvestments) :
                /\ activeInvestments[k].value.entryTimestamp = h.exitTimestamp[1]
                /\ activeInvestments[k].value.entryApy = 50

\* C21: isRunning goes from true to false by stop() and by nothing else;
\* a runBotLoop() ends only at its while test with isRunning false, so that
\* no failure within a pass ends it.
C21_OnlyStopHalts ==
    [][/\ (isRunning /\ ~isRunning') => Stop
       /\ \A l \in Loops :
            /\ (loops[l].pc # "idle" /\ loops'[l].pc = "idle")
                    => (~isRunning /\ loops[l].pc = "sleep")
            /\ (MidTick(l) /\ faults' > faults) => loops'[l].pc # "idle"]_vars

\* C21, its case: with no call of stop(), an entry of the first hour has
\* failed to reach the file, and the loop is in a pass a day later.
C21_Witness ==
    /\ calls = 0
    /\ faults = 1
    /\ isRunning
    /\ now = 24
    /\ ~disk.exists
    /\ activeInvestments # <<>>
    /\ \E l \in Loops : loops[l].pc = "enter"

\* C22: an exit within a pass, failed or not, leaves the investments that
\* follow it in investmentsToExit to be exited: the pass goes past the
\* exits only when none is left.
C22_OtherExitsProceed ==
    [][\A l \in Loops :
        (loops[l].pc \in {"exit", "exitSave"} /\ loops'[l] # loops[l]) =>
            LET remaining == IF loops[l].pc = "exit" THEN Tail(loops[l].toExit)
                             ELSE loops[l].toExit
            IN  /\ loops'[l].toExit = remaining
                /\ remaining # <<>> => loops'[l].pc \in {"exit", "exitSave"}
                /\ loops[l].pc = "exit" =>
                        Head(loops[l].toExit).id \in HistoryIds']_vars

\* C22, its case: the first exit of a pass has not reached the file (its
\* log or its write failed) and the write of the second exit is pending.
C22_Witness ==
    /\ calls = 0
    /\ faults = 1
    /\ Len(investmentHistory) = 2
    /\ disk.exists
    /\ disk.investmentHistory = <<>>
    /\ \E l \in Loops : loops[l].pc = "exitSave"

\* C24: totalInvestments is the number of investments ever made: those
\* active and those of the history.
C24_TotalCountsOpened ==
    stats.totalInvestments = Len(activeInvestments) + Len(investmentHistory)

\* C26: every investment ever made is active or in the history.
C26_NoPositionLost == \A id \in 1..(nextId - 1) : id \in ActiveIds \cup HistoryIds

\* C27: a pass invests only while the active investments number less than
\* MAX_ACTIVE_INVESTMENTS.
C27_CapacityPerAdmission ==
    [][\A l \in Loops :
        (loops[l].pc = "enter" /\ loops'[l] # loops[l]
            /\ activeInvestments' # activeInvestments)
                => Len(activeInvestments) < MAX_ACTIVE_INVESTMENTS]_vars

\* C28: a pass that has come to its entries exits nothing more, and a pass
\* that is through its exits goes to its entries when, the exits done, the
\* active investments number less than MAX_ACTIVE_INVESTMENTS.
C28_ExitsBeforeEntries ==
    [][\A l \in Loops :
        /\ loops[l].pc \in {"enter", "enterSave"}
                => loops'[l].pc \in {"enter", "enterSave", "sleep"}
        /\ (loops[l].pc \in {"exit", "exitSave"}
                /\ loops'[l].pc \notin {"exit", "exitSave"})
                => loops'[l] = IF Len(activeInvestments') < MAX_ACTIVE_INVESTMENTS
                               THEN EnterLoop(1) ELSE SleepingLoop]_vars

\* C28, its case: with one loop and the Map full, a pass of hour 48 has
\* exited and has then invested.
C28_Witness ==
    /\ calls = 0
    /\ now = 48
    /\ investmentHistory # <<>>
    /\ \E l \in Loops : loops[l].pc = "enterSave"
    /\ \E i \in 1..Len(activeInvestments) : activeInvestments[i].value.entryTimestamp = 48

\* C29: a pass begins with every active investment held for at least
\* HOLDING_PERIOD_HOURS in investmentsToExit, and each simulateExit moves
\* the first of them from the Map to the history and leaves the others.
C29_AllEligibleSettled ==
    [][\A l \in Loops :
        /\ (loops[l].pc \in {"idle", "sleep"} /\ loops'[l].pc \notin {"idle", "sleep"}) =>
                LET eligible ==
                        { i \in 1..Len(activeInvestments) :
                            now - activeInvestments[i].value.entryTimestamp
                                >= HOLDING_PERIOD_HOURS }
                IN  /\ Len(loops'[l].toExit) = Cardinality(eligible)
                    /\ \A i \in eligible :
                        \E k \in 1..Len(loops'[l].toExit) :
                            loops'[l].toExit[k] = activeInvestments[i].value
        /\ (loops[l].pc = "exit" /\ loops'[l] # loops[l]) =>
                LET investment == Head(loops[l].toExit) IN
                /\ Len(investmentHistory') = Len(investmentHistory) + 1
                /\ investmentHistory'[Len(investmentHistory')].id = investment.id
                /\ ~MapHas(activeInvestments', investment.poolId)
                /\ loops'[l].toExit = Tail(loops[l].toExit)]_vars

\* C29, its case: one pass of one loop has exited three investments, more
\* than MAX_ACTIVE_INVESTMENTS.
C29_Witness ==
    /\ calls = 0
    /\ faults = 0
    /\ Len(investmentHistory) = 3
    /\ activeInvestments = <<>>
    /\ \E l \in Loops : loops[l].pc = "exitSave" /\ loops[l].toExit = <<>>

\* C30: an exit whose pool is not in the file, or whose read of the file
\* fails, is an exit at the entry APY and the entry price with a profitLoss
\* of zero.
C30_FallbackExit ==
    [][\A l \in Loops :
        (loops[l].pc = "exit" /\ loops'[l] # loops[l]) =>
            LET investment == Head(loops[l].toExit)
                exited == investmentHistory'[Len(investmentHistory')]
            IN  (\/ getCurrentPoolData(investment.poolId, now, TRUE) = Null
                 \/ (faults' > faults /\ loops'[l].pc = "exitSave")) =>
                    /\ exited.id = investment.id
                    /\ exited.status = "exited"
                    /\ ~MapHas(activeInvestments', investment.poolId)
                    /\ exited.exitApy = Some(investment.entryApy)
                    /\ exited.exitPrice = Some(investment.entryPrice)
                    /\ exited.profitLoss = Some(0)
                    /\ exited.profitLossPercentage = Some(0)]_vars

\* C30, its case: an investment has exited in an hour in which the file
\* does not list its pool.
C30_Witness ==
    \E i \in 1..Len(investmentHistory) :
        LET h == investmentHistory[i] IN
        /\ getCurrentPoolData(h.poolId, h.exitTimestamp[1], TRUE) = Null
        /\ h.exitApy = Some(h.entryApy)
        /\ h.profitLoss = Some(0)

\* C23: with a history, averageHoldingTime is the sum of holdingTimeHours
\* over the history divided by the length of the history.
C23_AverageHoldingTime ==
    investmentHistory # <<>> =>
        /\ stats.averageHoldingTime.den > 0
        /\ stats.averageHoldingTime.num * Len(investmentHistory)
             = SumHolding(investmentHistory) * stats.averageHoldingTime.den

\* C23, its case: three exits, not all held for the same time.
C23_Witness ==
    /\ Len(investmentHistory) = 3
    /\ investmentHistory[1].holdingTimeHours # investmentHistory[3].holdingTimeHours
    /\ stats.totalInvestments = 3

\* C25: every pool of highApyPools.json has an APY above 30%.
C25_CachedAbove30 == \A i \in 1..Len(cache) : cache[i].apy > HIGH_APY_THRESHOLD

\* what a settlement does to the counters: exactly one of successfulExits
\* and failedExits goes up by one, with its total
SettlementCounted ==
    LET pl == investmentHistory'[Len(investmentHistory')].profitLoss[1] IN
    IF pl > 0
    THEN /\ stats'.successfulExits = stats.successfulExits + 1
         /\ stats'.totalProfit = stats.totalProfit + pl
         /\ stats'.failedExits = stats.failedExits
         /\ stats'.totalLoss = stats.totalLoss
    ELSE /\ stats'.failedExits = stats.failedExits + 1
         /\ stats'.totalLoss = stats.totalLoss + Abs(pl)
         /\ stats'.successfulExits = stats.successfulExits
         /\ stats'.totalProfit = stats.totalProfit

\* C31: each settlement increments exactly one of successfulExits (profit
\* above 0, added to totalProfit) and failedExits (profit 0 or below, its
\* magnitude added to totalLoss); totalProfit and totalLoss never decrease
\* and are never negative.
C31_ExitCounters ==
    [][/\ (\E l \in Loops : ExitApply(l)) => SettlementCounted
       /\ stats'.totalProfit >= stats.totalProfit
       /\ stats'.totalLoss >= stats.totalLoss
       /\ stats'.totalProfit >= 0 /\ stats'.totalLoss >= 0]_vars

\* C35: the start endpoint called while the bot is running (initialize(),
\* then start()) leaves the active investments, the history and the stats
\* as they were, also after a write of the file has failed.
C35_StartEndpointIdempotent ==
    [][(isRunning /\ (Initialize \/ Start)) => UNCHANGED engine]_vars

IsPrefix(s, t) == Len(s) <= Len(t) /\ SubSeq(t, 1, Len(s)) = s

\* C38: while the bot is running the history only grows at its end, and
\* exitTimestamp does not decrease along the history.
C38_HistoryAppendOnly ==
    [][/\ (isRunning /\ isRunning') => IsPrefix(investmentHistory, investmentHistory')
       /\ \A i, j \in 1..Len(investmentHistory') :
            i < j => investmentHistory'[i].exitTimestamp[1]
                        <= investmentHistory'[j].exitTimestamp[1]]_vars

\* the investment that the step has created
Opened == CHOOSE inv \in { activeInvestments'[i].value : i \in 1..Len(activeInvestments') } :
              inv.id = nextId

\* C32: every investment opened by checkForNewOpportunities has an entry
\* APY, liquidity and volume at or above the thresholds, and its pool had no
\* active investment when it was opened.
C32_OpenedQualify ==
    [][((\E l \in Loops : Invest(l)) /\ nextId' = nextId + 1) =>
            /\ Opened.entryApy >= HIGH_APY_THRESHOLD
            /\ Opened.entryLiquidity >= MIN_LIQUIDITY
            /\ Opened.entryVolume24h >= MIN_VOLUME_24H
            /\ ~MapHas(activeInvestments, Opened.poolId)
            /\ Len(activeInvestments') = Len(activeInvestments) + 1]_vars

\* C32, its case: a tick has opened a position at hour 24, when one pool of
\* the file was short of liquidity and another of volume.
C32_Witness ==
    \E l \in Loops :
        /\ loops[l].pc = "enterSave"
        /\ now = 24
        /\ calls = 0
        /\ \E i \in 1..Len(activeInvestments) :
            /\ activeInvestments[i].value.entryTimestamp = 24
            /\ activeInvestments[i].value.id = nextId - 1

\* C33: when simulateInvestment returns null (the endpoint answers 500), the
\* Map of active investments is as it was before the call.
C33_FailureLeavesNoPosition ==
    [][((\E req \in Requests : ManualEntry(req)) /\ response'.status = 500)
            => activeInvestments' = activeInvestments]_vars

\* C34: while the bot stays running, every active investment is in the end
\* exited and in the history, whatever calls of the endpoint come in
\* between.  The ids are never used again, so an investment that is to be
\* exited in the end stays in the Map until it is in the history.
C34_EventuallyExited ==
    [][(isRunning /\ isRunning') =>
            \A id \in ActiveIds : id \in ActiveIds' \cup HistoryIds']_vars

\* a write of botInvestments.json has settled with success
WriteLanded ==
    /\ \/ \E l \in Loops : ExitSaveDone(l) \/ EnterSaveDone(l)
       \/ ManualSaveDone
    /\ faults' = faults

\* C36: when the write of an investment or of an exit has succeeded and no
\* other write is pending, the file holds the active investments, the
\* history and the stats that are in memory.
C36_FileEqualsMemory ==
    [][(WriteLanded /\ Saving' = 0)
            => disk' = SaveData(activeInvestments', investmentHistory', stats')]_vars

\* C37: stop() changes neither the loops nor the data; a tick in progress
\* goes on after it: an exit that has begun is applied and its write is
\* made, a write that is pending settles, and the loop ends only from its
\* sleep.
C37_StopTearsNothing ==
    [][/\ (isRunning /\ ~isRunning') => (loops' = loops /\ UNCHANGED engine /\ disk' = disk)
       /\ \A l \in Loops :
            /\ (loops[l].pc \in {"exitSave", "enterSave"} /\ loops'[l] # loops[l])
                    => (disk' = loops[l].data[1] \/ faults' > faults)
            /\ (loops[l].pc = "exit" /\ loops'[l] # loops[l])
                    => /\ Head(loops[l].toExit).id \in HistoryIds'
                       /\ loops'[l].pc = "exitSave" \/ faults' > faults
            /\ (MidTick(l) /\ loops'[l] # loops[l]) => loops'[l].pc # "idle"]_vars

\* C37, its case: stop() has been called while the write of an exit was
\* pending with another exit of the same tick to come.
C37_Witness ==
    /\ ~isRunning
    /\ \E l \in Loops : loops[l].pc = "exitSave" /\ loops[l].toExit # <<>>

\* C39: the entries are deterministic: the step that checkForNewOpportunities
\* takes from a state, a pool list and a clock is the same whatever ages
\* getPoolAge draws.
C39_EntriesDeterministic ==
    [][\A l \in Loops :
        (Invest(l) /\ faults' = faults) =>
            \A ages \in [1..Len(getHighApyPools(now)) -> PoolAges] :
                InvestWith(l, ages, TRUE)]_vars

====
